---- MODULE Spec2Model ----
(***************************************************************************)
(* Model of dcgan.py: the start-up sequence of main() as run by every      *)
(* worker (MPI process) of a ChainerMN job, and the adversarial training   *)
(* step DCGANUpdater.update_core.                                          *)
(*                                                                         *)
(* Every worker runs the same script with the same command line.  The      *)
(* workers interleave freely except at scatter_dataset, where a non-root   *)
(* worker waits for the sub-dataset that the root sends to it.             *)
(***************************************************************************)
EXTENDS Integers, Sequences, FiniteSets, TLC

\* ---- bounds of the model ------------------------------------------------
MaxWorkers == 2     \* largest comm.size explored
MaxData    == 3     \* largest number of elements worker 0 loads
MaxIter    == 2     \* training iterations explored per worker

Workers == 0 .. (MaxWorkers - 1)

\* ---- values --------------------------------------------------------------
\* A value of the variable train: not yet assigned, None, or a dataset.
Unbound == [kind |-> "unbound", items |-> <<>>]
None    == [kind |-> "None", items |-> <<>>]
NoComm == "none"                                   \* no communicator created yet
CommunicatorNames == {"naive", "pure_nccl", "flat"}  \* values of --communicator
DatasetArgs == {"", "images"}                      \* --dataset: '' (cifar-10) or a directory

ExitStatus == -1                                \* exit(-1)
CpuDevice  == -1                                \* device = -1

Line(text, str, num) == [text |-> text, str |-> str, num |-> num]

ErrorNaiveGpu == Line("Error: 'naive' communicator does not support GPU.", "", 0)
WarnNaiveCpu  == Line("Warning: using naive communicator because only naive supports CPU-only execution", "", 0)
Separator     == Line("==========================================", "", 0)
UsingGPUs     == Line("Using GPUs", "", 0)
UsingCommunicator(name) == Line("Using {} communicator", name, 0)

VARIABLES
    args,        \* parsed command line: [gpu, communicator, dataset]
    size,        \* comm.size: number of workers of the job
    disk_len,    \* number of elements the dataset on disk holds
    pc,          \* position of every worker in main()
    comm,        \* type of the communicator each worker created
    device,      \* device id each worker computes ({} while unassigned)
    printed,     \* lines each worker has printed
    exit_status, \* status passed to exit() ({} while running)
    models,      \* per worker: [built, on_gpu, optimizers]
    loaded,      \* dataset the worker loaded (train before scatter_dataset)
    train,       \* sub-dataset the worker holds after scatter_dataset
    scatter_calls, \* number of scatter_dataset calls of each worker
    inbox,       \* sub-datasets sent by the root and not yet received
    upd          \* per worker: state of the DCGANUpdater and what it drives

vars == <<args, size, disk_len, pc, comm, device, printed, exit_status,
          models, loaded, train, scatter_calls, inbox, upd>>

Active(w) == w < size

\* ---- main(): communicator selection (lines 284-299) ----------------------
\* Result of the if/else at lines 285-299 for the worker of rank r.
PrepareCommunicator_NoExit(a, r) ==
    IF a.gpu
    THEN [exited |-> FALSE, out |-> <<>>, comm |-> a.communicator, device |-> r]
    ELSE [exited |-> FALSE,
          out    |-> IF a.communicator # "naive" THEN <<WarnNaiveCpu>> ELSE <<>>,
          comm   |-> "naive", device |-> CpuDevice]

PrepareCommunicator_CpuUsesArg(a, r) ==
    IF a.gpu
    THEN IF a.communicator = "naive"
         THEN [exited |-> TRUE, out |-> <<ErrorNaiveGpu>>, comm |-> NoComm, device |-> CpuDevice]
         ELSE [exited |-> FALSE, out |-> <<>>, comm |-> a.communicator, device |-> r]
    ELSE [exited |-> FALSE,
          out    |-> IF a.communicator # "naive" THEN <<WarnNaiveCpu>> ELSE <<>>,
          comm   |-> a.communicator, device |-> CpuDevice]

PrepareCommunicator(a, r) ==
    IF a.gpu
    THEN IF a.communicator = "naive"
         THEN [exited |-> TRUE, out |-> <<ErrorNaiveGpu>>, comm |-> NoComm, device |-> CpuDevice]
         ELSE [exited |-> FALSE, out |-> <<>>, comm |-> a.communicator, device |-> r]
    ELSE [exited |-> FALSE,
          out    |-> IF a.communicator # "naive" THEN <<WarnNaiveCpu>> ELSE <<>>,
          comm   |-> "naive", device |-> CpuDevice]

\* ---- main(): start-up banner (lines 302-311) -----------------------------
Banner(a, r, n) ==
    IF r = 0
    THEN <<Separator, Line("Num process (COMM_WORLD): {}", "", n)>>
         \o (IF a.gpu THEN <<UsingGPUs>> ELSE <<>>)
         \o <<UsingCommunicator(a.communicator),
              Line("Num hidden unit: {}", "n_hidden", 0),
              Line("Num Minibatch-size: {}", "batchsize", 0),
              Line("Num epoch: {}", "epoch", 0),
              Separator>>
    ELSE <<>>

\* ---- main(): dataset loading (lines 349-362) -----------------------------
Dataset(n) == [kind |-> "dataset", items |-> [i \in 1 .. n |-> i]]

LoadTrain_EveryRank(r, n) == Dataset(n)

LoadTrain(r, n) == IF r = 0 THEN Dataset(n) ELSE None

LoadOutput(a, r, n) ==
    IF r = 0 /\ a.dataset # ""
    THEN <<Line("{} contains {} image files", a.dataset, n)>>
    ELSE <<>>

\* ---- chainermn.scatter_dataset (called at line 363) ----------------------
\* The root cuts its dataset into comm.size contiguous slices of equal
\* length ceil(len / size), slice i starting at len * i \div size.
SubLen(n, sz) == (n + sz - 1) \div sz
SubBegin(n, sz, i) == (n * i) \div sz
SubDataset(ds, sz, i) ==
    [kind  |-> "dataset",
     items |-> SubSeq(ds.items, SubBegin(Len(ds.items), sz, i) + 1,
                      SubBegin(Len(ds.items), sz, i) + SubLen(Len(ds.items), sz))]

\* ---- DCGANUpdater.update_core (lines 182-212) ----------------------------
Event(op, target, y) == [op |-> op, target |-> target, y |-> y]
NoY == [batch |-> 0, gen_ver |-> 0, dis_ver |-> 0]

InitUpdater ==
    [iteration |-> 0, next_calls |-> 0, dis_fwd |-> 0, gen_fwd |-> 0,
     dis_updates |-> 0, gen_updates |-> 0, y_real |-> NoY, y_fake |-> NoY,
     log |-> <<>>]

\* batch = self.get_iterator('main').next()
IterNext(u) ==
    [u EXCEPT !.next_calls = @ + 1,
              !.log = Append(@, Event("next", "main", NoY))]

\* The output of D carries which batch and which parameters produced it.
Output(u) == [batch |-> u.next_calls, gen_ver |-> u.gen_updates, dis_ver |-> u.dis_updates]

\* y_real = dis(x_real)
DisReal(u) ==
    [u EXCEPT !.dis_fwd = @ + 1, !.y_real = Output(u),
              !.log = Append(@, Event("dis", "x_real", Output(u)))]

\* x_fake = gen(z)
GenFake(u) ==
    [u EXCEPT !.gen_fwd = @ + 1,
              !.log = Append(@, Event("gen", "z", NoY))]

\* y_fake = dis(x_fake)
DisFake(u) ==
    [u EXCEPT !.dis_fwd = @ + 1, !.y_fake = Output(u),
              !.log = Append(@, Event("dis", "x_fake", Output(u)))]

\* dis_optimizer.update(self.loss_dis, dis, y_fake, y_real)
DisUpdate(u) ==
    [u EXCEPT !.dis_updates = @ + 1,
              !.log = Append(@, Event("update", "dis", u.y_fake))]

\* gen_optimizer.update(self.loss_gen, gen, y_fake)
GenUpdate(u) ==
    [u EXCEPT !.gen_updates = @ + 1,
              !.log = Append(@, Event("update", "gen", u.y_fake))]

\* A step that runs D on the fake samples again after D has been updated.
update_core_Recompute(u) ==
    GenUpdate(DisFake(DisUpdate(DisFake(GenFake(DisReal(IterNext([u EXCEPT !.log = <<>>])))))))

\* One call of update_core; log holds the calls of the latest step only.
update_core(u) ==
    GenUpdate(DisUpdate(DisFake(GenFake(DisReal(IterNext([u EXCEPT !.log = <<>>]))))))

\* ---- initial states ------------------------------------------------------
Init ==
    /\ args \in [gpu : BOOLEAN, communicator : CommunicatorNames, dataset : DatasetArgs]
    /\ size \in 1 .. MaxWorkers
    /\ disk_len \in 0 .. MaxData
    /\ pc = [w \in Workers |-> IF Active(w) THEN "communicator" ELSE "off"]
    /\ comm = [w \in Workers |-> NoComm]
    /\ device = [w \in Workers |-> {}]
    /\ printed = [w \in Workers |-> <<>>]
    /\ exit_status = [w \in Workers |-> {}]
    /\ models = [w \in Workers |-> [built |-> FALSE, on_gpu |-> FALSE, optimizers |-> FALSE]]
    /\ loaded = [w \in Workers |-> Unbound]
    /\ train = [w \in Workers |-> Unbound]
    /\ scatter_calls = [w \in Workers |-> 0]
    /\ inbox = [w \in Workers |-> <<>>]
    /\ upd = [w \in Workers |-> InitUpdater]

\* ---- actions: one per step of main() -------------------------------------
\* lines 284-299
CreateCommunicator(w) ==
    /\ pc[w] = "communicator"
    /\ LET res == PrepareCommunicator(args, w) IN
       /\ printed' = [printed EXCEPT ![w] = @ \o res.out]
       /\ IF res.exited
          THEN /\ exit_status' = [exit_status EXCEPT ![w] = {ExitStatus}]
               /\ pc' = [pc EXCEPT ![w] = "exited"]
               /\ UNCHANGED <<comm, device>>
          ELSE /\ comm' = [comm EXCEPT ![w] = res.comm]
               /\ device' = [device EXCEPT ![w] = {res.device}]
               /\ pc' = [pc EXCEPT ![w] = "banner"]
               /\ UNCHANGED exit_status
    /\ UNCHANGED <<args, size, disk_len, models, loaded, train, scatter_calls, inbox, upd>>

\* lines 302-311
PrintBanner(w) ==
    /\ pc[w] = "banner"
    /\ printed' = [printed EXCEPT ![w] = @ \o Banner(args, w, size)]
    /\ pc' = [pc EXCEPT ![w] = "models"]
    /\ UNCHANGED <<args, size, disk_len, comm, device, exit_status, models, loaded,
                   train, scatter_calls, inbox, upd>>

\* lines 316-344: build G and D, move them to the GPU, make the optimizers
SetUpModels(w) ==
    /\ pc[w] = "models"
    /\ models' = [models EXCEPT ![w] = [built |-> TRUE, on_gpu |-> \E d \in device[w] : d >= 0,
                                        optimizers |-> TRUE]]
    /\ pc' = [pc EXCEPT ![w] = "load"]
    /\ UNCHANGED <<args, size, disk_len, comm, device, printed, exit_status, loaded,
                   train, scatter_calls, inbox, upd>>

\* lines 349-362
LoadDataset(w) ==
    /\ pc[w] = "load"
    /\ loaded' = [loaded EXCEPT ![w] = LoadTrain(w, disk_len)]
    /\ printed' = [printed EXCEPT ![w] = @ \o LoadOutput(args, w, disk_len)]
    /\ pc' = [pc EXCEPT ![w] = "scatter"]
    /\ UNCHANGED <<args, size, disk_len, comm, device, exit_status, models,
                   train, scatter_calls, inbox, upd>>

\* line 363 on the root: keep slice 0, send slice i to worker i
ScatterRoot(w) ==
    /\ pc[w] = "scatter"
    /\ w = 0
    /\ loaded[w].kind = "dataset"
    /\ train' = [train EXCEPT ![w] = SubDataset(loaded[w], size, 0)]
    /\ inbox' = [v \in Workers |->
                   IF Active(v) /\ v # 0
                   THEN Append(inbox[v], SubDataset(loaded[w], size, v))
                   ELSE inbox[v]]
    /\ scatter_calls' = [scatter_calls EXCEPT ![w] = @ + 1]
    /\ pc' = [pc EXCEPT ![w] = "trainer"]
    /\ UNCHANGED <<args, size, disk_len, comm, device, printed, exit_status, models,
                   loaded, upd>>

\* line 363 on another worker: receive the slice the root sent
ScatterRecv(w) ==
    /\ pc[w] = "scatter"
    /\ w # 0
    /\ inbox[w] # <<>>
    /\ train' = [train EXCEPT ![w] = Head(inbox[w])]
    /\ inbox' = [inbox EXCEPT ![w] = Tail(@)]
    /\ scatter_calls' = [scatter_calls EXCEPT ![w] = @ + 1]
    /\ pc' = [pc EXCEPT ![w] = "trainer"]
    /\ UNCHANGED <<args, size, disk_len, comm, device, printed, exit_status, models,
                   loaded, upd>>

\* lines 367-420: iterator, updater, trainer and its extensions
SetUpTrainer(w) ==
    /\ pc[w] = "trainer"
    /\ upd' = [upd EXCEPT ![w] = InitUpdater]
    /\ pc' = [pc EXCEPT ![w] = "run"]
    /\ UNCHANGED <<args, size, disk_len, comm, device, printed, exit_status, models,
                   loaded, train, scatter_calls, inbox>>

\* line 424, one iteration of trainer.run(): updater.update() calls
\* update_core and counts the iteration
Update(w) ==
    /\ pc[w] = "run"
    /\ Len(train[w].items) > 0
    /\ upd[w].iteration < MaxIter
    /\ upd' = [upd EXCEPT ![w] = [update_core(@) EXCEPT !.iteration = @ + 1]]
    /\ UNCHANGED <<args, size, disk_len, pc, comm, device, printed, exit_status, models,
                   loaded, train, scatter_calls, inbox>>

\* line 424: trainer.run() returns and main() ends
Finish(w) ==
    /\ pc[w] = "run"
    /\ upd[w].iteration > 0
    /\ pc' = [pc EXCEPT ![w] = "done"]
    /\ UNCHANGED <<args, size, disk_len, comm, device, printed, exit_status, models,
                   loaded, train, scatter_calls, inbox, upd>>

Next ==
    \E w \in Workers :
        \/ CreateCommunicator(w)
        \/ PrintBanner(w)
        \/ SetUpModels(w)
        \/ LoadDataset(w)
        \/ ScatterRoot(w)
        \/ ScatterRecv(w)
        \/ SetUpTrainer(w)
        \/ Update(w)
        \/ Finish(w)

Spec == Init /\ [][Next]_vars

\* ---- helpers for the properties ------------------------------------------
Running == {w \in Workers : Active(w)}
Range(f) == {f[i] : i \in DOMAIN f}
Positions(log, op, target) ==
    {i \in DOMAIN log : log[i].op = op /\ log[i].target = target}
Occurrences(lines, l) == Cardinality({i \in DOMAIN lines : lines[i] = l})
AfterCommunicator == {"banner", "models", "load", "scatter", "trainer", "run", "done"}
AfterBanner  == {"models", "load", "scatter", "trainer", "run", "done"}
AfterLoad    == {"scatter", "trainer", "run", "done"}
AfterScatter == {"trainer", "run", "done"}

\* C1: after k calls of update_core a worker has taken k batches from the
\* 'main' iterator, run D 2k times and G k times and called each optimizer's
\* update k times; within the latest call there is exactly one next(), one
\* D pass on x_real, one G pass, one D pass on x_fake, one update of the
\* discriminator optimizer and after it one update of the generator
\* optimizer, and both updates were given the y_fake that D produced in
\* this call before either update had changed any parameter.
StepIsOneAdversarialUpdate(u) ==
    LET log == u.log
        k   == u.iteration
    IN  /\ u.next_calls = k /\ u.gen_fwd = k /\ u.dis_fwd = 2 * k
        /\ u.dis_updates = k /\ u.gen_updates = k
        /\ k > 0 =>
            /\ Cardinality(Positions(log, "next", "main")) = 1
            /\ Cardinality(Positions(log, "dis", "x_real")) = 1
            /\ Cardinality(Positions(log, "gen", "z")) = 1
            /\ Cardinality(Positions(log, "dis", "x_fake")) = 1
            /\ Cardinality(Positions(log, "update", "dis")) = 1
            /\ Cardinality(Positions(log, "update", "gen")) = 1
            /\ Len(log) = 6
            /\ \A n \in Positions(log, "next", "main"),
                  r \in Positions(log, "dis", "x_real"),
                  g \in Positions(log, "gen", "z"),
                  f \in Positions(log, "dis", "x_fake"),
                  d \in Positions(log, "update", "dis"),
                  e \in Positions(log, "update", "gen") :
                    /\ n < r /\ n < g /\ g < f
                    /\ r < d /\ f < d /\ d < e
                    /\ log[d].y = log[f].y
                    /\ log[e].y = log[f].y
                    /\ log[f].y = [batch |-> k, gen_ver |-> k - 1, dis_ver |-> k - 1]

C1_UpdateCoreStep ==
    \A w \in Running : StepIsOneAdversarialUpdate(upd[w])

C1_Witness ==
    \E w \in Running : upd[w].iteration = 2 /\ pc[w] = "done"

\* C2: only worker 0 loads the dataset and every other worker passes None;
\* every worker calls scatter_dataset exactly once; once all workers have
\* returned from it each holds a contiguous part of worker 0's data, the
\* sizes of the parts differ by at most one, and the parts together hold
\* every element worker 0 loaded.
IsPartOf(part, whole) ==
    /\ part.kind = "dataset"
    /\ \E b \in 0 .. Len(whole.items) :
          /\ b + Len(part.items) <= Len(whole.items)
          /\ part.items = SubSeq(whole.items, b + 1, b + Len(part.items))

C2_ScatterFromRoot ==
    /\ \A w \in Running :
          /\ pc[w] \in AfterLoad =>
                loaded[w] = IF w = 0 THEN Dataset(disk_len) ELSE None
          /\ scatter_calls[w] = IF pc[w] \in AfterScatter THEN 1 ELSE 0
    /\ (\A w \in Running : pc[w] \in AfterScatter) =>
          /\ \A w \in Running : IsPartOf(train[w], loaded[0])
          /\ \A v, w \in Running :
                Len(train[v].items) - Len(train[w].items) <= 1
          /\ UNION {Range(train[w].items) : w \in Running} = Range(loaded[0].items)

C2_Witness ==
    /\ size = 2 /\ disk_len = 3
    /\ \A w \in Running : pc[w] = "done" /\ scatter_calls[w] = 1
    /\ train[1].items = <<2, 3>>

\* C3: with --gpu and --communicator naive every worker prints the error
\* and exits with status -1 without ever creating a communicator, building
\* a model, loading or scattering a dataset or running a training
\* iteration.
C3_NaiveWithGpuExits ==
    (args.gpu /\ args.communicator = "naive") =>
        \A w \in Running :
            /\ pc[w] \in {"communicator", "exited"}
            /\ comm[w] = NoComm
            /\ ~models[w].built /\ ~models[w].optimizers
            /\ loaded[w] = Unbound /\ train[w] = Unbound
            /\ scatter_calls[w] = 0
            /\ upd[w].iteration = 0 /\ upd[w].next_calls = 0
            /\ pc[w] = "communicator" => printed[w] = <<>> /\ exit_status[w] = {}
            /\ pc[w] = "exited" =>
                  printed[w] = <<ErrorNaiveGpu>> /\ exit_status[w] = {ExitStatus}

C3_Witness ==
    /\ args.gpu /\ args.communicator = "naive"
    /\ \A w \in Running : pc[w] = "exited"

\* C4: without --gpu the communicator created is 'naive' and the device is
\* -1 whatever --communicator says; the warning is printed (once) exactly
\* when --communicator is not 'naive'; the models are never moved to a GPU.
C4_CpuRunUsesNaive ==
    ~args.gpu =>
        \A w \in Running :
            /\ pc[w] # "exited"
            /\ ~models[w].on_gpu
            /\ pc[w] \in AfterCommunicator =>
                  /\ comm[w] = "naive"
                  /\ device[w] = {CpuDevice}
                  /\ Occurrences(printed[w], WarnNaiveCpu) =
                        IF args.communicator # "naive" THEN 1 ELSE 0

C4_Witness ==
    /\ ~args.gpu /\ args.communicator = "pure_nccl"
    /\ \E w \in Running : pc[w] = "done" /\ models[w].built

\* C5: the communicator name in worker 0's banner line 'Using {}
\* communicator' is the type of the communicator that was created, and no
\* other worker prints the banner.
IsBannerLine(l) == l.text = "Using {} communicator"

C5_BannerNamesCreatedCommunicator ==
    \A w \in Running :
        pc[w] \in AfterBanner =>
            IF w = 0
            THEN /\ Occurrences(printed[w], UsingCommunicator(comm[w])) = 1
                 /\ \A l \in Range(printed[w]) : IsBannerLine(l) => l.str = comm[w]
            ELSE \A l \in Range(printed[w]) : ~IsBannerLine(l)

====
